---- MODULE Spec2Model ----
(***************************************************************************)
(* Model of homework.py: a bot that polls the homework-review API, formats *)
(* the status of the most recent submission and forwards it to a Telegram  *)
(* chat.  Python values are modelled with a type tag; texts are sequences  *)
(* of string fragments (the Russian literals are rendered in English).     *)
(***************************************************************************)
EXTENDS Integers, Sequences, FiniteSets, TLC

\* ---------------------------------------------------------------- bounds
\* largest current_date the API supplies (the start time is StartTime)
MaxDate == 1
\* longest homeworks list the API supplies
MaxHw == 2

\* ------------------------------------------------------------- constants
RETRY_PERIOD == 600
ENDPOINT == "https://practicum.yandex.ru/api/user_api/homework_statuses/"
HTTP_OK == "200"

HOMEWORK_VERDICTS ==
    [approved |-> "Work checked: the reviewer liked everything. Hooray!",
     reviewing |-> "Work taken for review by the reviewer.",
     rejected |-> "Work checked: the reviewer has remarks."]

\* ---------------------------------------------------------- Python values
\* os.getenv gives None for an unset variable, otherwise its string.
None == "<None>"
TokenValues == {None, "", "token"}
TokenNames == <<"PRACTICUM_TOKEN", "TELEGRAM_TOKEN", "TELEGRAM_CHAT_ID">>

\* int(time.time()) at startup
StartTime == 0

PyInt(n) == [t |-> "int", i |-> n]
PyStr == [t |-> "str", i |-> 0]
PyNone == [t |-> "NoneType", i |-> 0]
Unbound == [t |-> "unbound", i |-> 0]
\* values the API may put under current_date: integers, or a non-integer
DateValues == {PyInt(n) : n \in 1..MaxDate} \cup {PyStr}

\* a status is a string, or an unhashable JSON value (array / object)
StatusStr(s) == [t |-> "str", s |-> s]
StatusList == [t |-> "list", s |-> "[]"]
StatusValues ==
    {StatusStr(s) : s \in {"approved", "reviewing", "rejected", "unknown"}}
        \cup {StatusList}

\* a submission: a dict over a subset of the keys homework_name, status
Homeworks ==
    {[homework_name |-> "proj1", status |-> s] : s \in StatusValues}
        \cup {[status |-> s] : s \in {StatusStr("approved"), StatusStr("unknown")}}
        \cup {[homework_name |-> "proj1"]}
        \cup {[k \in {} |-> ""]}
\* the older submissions that follow element 0 in a list
OlderHomeworks ==
    {[homework_name |-> "proj2", status |-> StatusStr(s)] : s \in {"approved", "rejected"}}

RECURSIVE SeqsUpTo(_, _)
SeqsUpTo(S, n) ==
    IF n = 0 THEN {<<>>}
    ELSE LET shorter == SeqsUpTo(S, n - 1)
         IN  shorter \cup {Append(q, x) : q \in shorter, x \in S}

HomeworkLists ==
    {<<>>} \cup {<<h>> \o rest : h \in Homeworks,
                                rest \in SeqsUpTo(OlderHomeworks, MaxHw - 1)}

PyList(l) == [t |-> "list", l |-> l]
PyNotList == [t |-> "str", l |-> <<>>]
HomeworksValues == {PyList(l) : l \in HomeworkLists} \cup {PyNotList}

\* decoded JSON bodies: dicts over a subset of the two keys, or a non-dict
ResponseDicts ==
    {[current_date |-> c, homeworks |-> h] : c \in DateValues, h \in HomeworksValues}
        \cup {[current_date |-> c] : c \in DateValues}
        \cup {[homeworks |-> h] : h \in HomeworksValues}
        \cup {[k \in {} |-> ""]}
Dict(d) == [t |-> "dict", d |-> d]
NotDict == [t |-> "list", d |-> [k \in {} |-> ""]]
Responses == {Dict(d) : d \in ResponseDicts} \cup {NotDict}
NoResponse == [t |-> "unbound", d |-> [k \in {} |-> ""]]

\* HTTP status codes the API answers with
StatusCodes == {HTTP_OK, "503"}
\* texts of the requests exceptions a transport failure carries
TransportErrors == {"timed out"}

\* ------------------------------------------------------------ exceptions
\* An exception object: class, the text of its argument, object identity.
\* Identity 0 is the str object '' that old_error starts as.
ObjIds == 1..3
Exc(cls, msg, id) == [cls |-> cls, msg |-> msg, id |-> id]
NoExc == [cls |-> "", msg |-> <<>>, id |-> 0]
EmptyStr == [cls |-> "str", msg |-> <<>>, id |-> 0]

\* str(error): a KeyError shows the repr of its argument (in double quotes,
\* as the texts here contain single ones), the others the text
Str(e) ==
    IF e.cls = "KeyError" THEN <<"\"">> \o e.msg \o <<"\"">> ELSE e.msg

\* result of a call: a returned value or a raised exception (class, text)
Return(v) == [raises |-> FALSE, cls |-> "", msg |-> <<>>, val |-> v]
Raise(cls, msg) == [raises |-> TRUE, cls |-> cls, msg |-> msg, val |-> <<>>]

\* ------------------------------------------------------- pure functions
\* get_api_answer after the transport answered with `code` and body `body`
\* (body = NoResponse: the body is not JSON)
HttpAnswer(code, body) ==
    IF code # HTTP_OK THEN Raise("HTTPError", <<"Error ", code>>)
    ELSE IF body = NoResponse THEN Raise("JSONDecodeError", <<"Expecting value">>)
    ELSE Return(body)

\* response.get('current_date')
GetCurrentDate(response) ==
    IF response.t # "dict"
    THEN Raise("AttributeError", <<"'list' object has no attribute 'get'">>)
    ELSE IF "current_date" \in DOMAIN response.d
         THEN Return(response.d.current_date)
         ELSE Return(PyNone)

\* check_response as it would be if an empty homeworks list were rejected
check_response_rejects_empty(response) ==
    IF /\ response.t = "dict"
       /\ \A key \in {"current_date", "homeworks"} : key \in DOMAIN response.d
       /\ response.d.homeworks.t = "list"
       /\ response.d.homeworks.l # <<>>
    THEN Return(response.d.homeworks.l)
    ELSE Raise("TypeError", <<"API response is not correct">>)

check_response(response) ==
    IF /\ response.t = "dict"
       /\ \A key \in {"current_date", "homeworks"} : key \in DOMAIN response.d
       /\ response.d.homeworks.t = "list"
    THEN Return(response.d.homeworks.l)
    ELSE Raise("TypeError", <<"API response is not correct">>)

\* parse_status as it would be if the verdict were looked up before the
\* homework_name key is read
parse_status_lookup_first(homework) ==
    IF "status" \notin DOMAIN homework
    THEN Raise("KeyError",
               <<"Key ", "'status'", " not found in the homework information">>)
    ELSE LET status == homework.status
         IN  IF status.t # "str"
             THEN Raise("TypeError", <<"unhashable type: 'list'">>)
             ELSE IF status.s \notin DOMAIN HOMEWORK_VERDICTS
             THEN Raise("RequestExceptionError",
                        <<"Homework status is undefined: ", "'", status.s, "'">>)
             ELSE IF "homework_name" \notin DOMAIN homework
             THEN Raise("KeyError",
                        <<"Key ", "'homework_name'",
                          " not found in the homework information">>)
             ELSE Return(<<"Review status changed for \"", homework.homework_name,
                           "\". ", HOMEWORK_VERDICTS[status.s]>>)

\* parse_status as it would be if the verdict were looked up with dict.get
parse_status_silent_lookup(homework) ==
    IF "homework_name" \notin DOMAIN homework
    THEN Raise("KeyError",
               <<"Key ", "'homework_name'", " not found in the homework information">>)
    ELSE IF "status" \notin DOMAIN homework
    THEN Raise("KeyError",
               <<"Key ", "'status'", " not found in the homework information">>)
    ELSE LET name == homework.homework_name
             status == homework.status
         IN  IF status.t # "str"
             THEN Raise("TypeError", <<"unhashable type: 'list'">>)
             ELSE Return(<<"Review status changed for \"", name, "\". ",
                           IF status.s \in DOMAIN HOMEWORK_VERDICTS
                           THEN HOMEWORK_VERDICTS[status.s] ELSE "None">>)

parse_status(homework) ==
    IF "homework_name" \notin DOMAIN homework
    THEN Raise("KeyError",
               <<"Key ", "'homework_name'", " not found in the homework information">>)
    ELSE IF "status" \notin DOMAIN homework
    THEN Raise("KeyError",
               <<"Key ", "'status'", " not found in the homework information">>)
    ELSE LET name == homework.homework_name
             status == homework.status
         IN  IF status.t # "str"
             THEN Raise("TypeError", <<"unhashable type: 'list'">>)
             ELSE IF status.s \notin DOMAIN HOMEWORK_VERDICTS
             THEN Raise("RequestExceptionError",
                        <<"Homework status is undefined: ", "'", status.s, "'">>)
             ELSE Return(<<"Review status changed for \"", name, "\". ",
                           HOMEWORK_VERDICTS[status.s]>>)

\* the text of the failure notification, main line 183
FailureMessage(error) == <<"Program failure: ">> \o Str(error)

\* the text of the exception send_message raises, line 66
NotSentMessage(message) == <<"The bot did not send ">> \o message \o <<".">>

\* check_tokens: raises for the first of the three names whose global is None
check_tokens(globals) ==
    IF \E i \in 1..3 : globals[TokenNames[i]] = None
    THEN LET i == CHOOSE i \in 1..3 :
                    /\ globals[TokenNames[i]] = None
                    /\ \A j \in 1..(i - 1) : globals[TokenNames[j]] # None
         IN  Raise("RequestExceptionError", <<"Token ", TokenNames[i], " not found">>)
    ELSE Return(<<>>)

\* error != old_error: neither str nor the exception classes define __eq__
\* for each other, so the comparison is by object identity
NotEqual(error, old_error) == error.id # old_error.id

\* the identity of a newly created object: one no live object has (identities
\* are only ever compared, so the least free one stands for any of them)
FreshId(live) == CHOOSE id \in ObjIds : id \notin live

\* ------------------------------------------------------------------ state
VARIABLES
    pc,          \* position in main
    globals,     \* the three module-level tokens read by os.getenv
    timestamp,   \* main's poll cursor
    old_error,   \* main's last error marker
    response,    \* main's locals of the current iteration
    homeworks,
    message,
    error,       \* the exception bound by `except Exception as error`
    propagating, \* the exception unwinding out of main, if any
    sent,        \* delivery attempts of the current iteration, in order
    iter_error,  \* the exception the current iteration caught, if any
    prev_error,  \* the exception the previous iteration caught, if any
    prev_sent,   \* delivery attempts of the previous iteration
    prev_empty,  \* whether the previous iteration got an empty homeworks list
    api_calls,   \* whether requests.get has been called
    from_date,   \* the from_date parameter of the latest requests.get
    sleeps       \* time.sleep calls since the last requests.get

vars == <<pc, globals, timestamp, old_error, response, homeworks, message,
          error, propagating, sent, iter_error, prev_error, prev_sent, prev_empty,
          api_calls, from_date, sleeps>>

\* configurations: all three secrets set, or exactly one unset or empty
Configurations ==
    {g \in [{TokenNames[i] : i \in 1..3} -> TokenValues] :
        Cardinality({n \in DOMAIN g : g[n] # "token"}) <= 1}

Init ==
    /\ pc = "STARTING"
    /\ globals \in Configurations
    /\ timestamp = Unbound
    /\ old_error = NoExc
    /\ response = NoResponse
    /\ homeworks = <<>>
    /\ message = <<>>
    /\ error = NoExc
    /\ propagating = NoExc
    /\ sent = <<>>
    /\ iter_error = NoExc
    /\ prev_error = NoExc
    /\ prev_sent = <<>>
    /\ prev_empty = FALSE
    /\ api_calls = FALSE
    /\ from_date = Unbound
    /\ sleeps = 0

\* an exception raised inside the try block is bound by the except clause
Catch(cls, msg) ==
    LET e == Exc(cls, msg, FreshId({old_error.id}))
    IN  /\ error' = e
        /\ iter_error' = e
        /\ pc' = "except"

\* main lines 166-169: check_tokens, the Bot, the cursor and the marker.
\* telegram.Bot validates its token when constructed and raises InvalidToken
\* for an empty one.
Startup ==
    /\ pc = "STARTING"
    /\ LET r == check_tokens(globals)
       IN  IF r.raises
           THEN /\ pc' = "terminated"
                /\ propagating' = Exc(r.cls, r.msg, FreshId({}))
                /\ UNCHANGED <<timestamp, old_error>>
           ELSE IF globals.TELEGRAM_TOKEN # ""
           THEN /\ pc' = "get"
                /\ timestamp' = PyInt(StartTime)
                /\ old_error' = EmptyStr
                /\ UNCHANGED propagating
           ELSE /\ pc' = "terminated"
                /\ propagating' = Exc("InvalidToken", <<"Invalid token">>, FreshId({}))
                /\ UNCHANGED <<timestamp, old_error>>
    /\ UNCHANGED <<globals, response, homeworks, message, error, sent,
                   iter_error, prev_error, prev_sent, prev_empty, api_calls, from_date, sleeps>>

\* main line 172: response = get_api_answer(timestamp)
GetApiAnswer ==
    /\ pc = "get"
    /\ api_calls' = TRUE
    /\ from_date' = timestamp
    /\ sleeps' = 0
    /\ \/ \E te \in TransportErrors :
            /\ Catch("ConnectionError", <<"Problem with the server response: ", te>>)
            /\ UNCHANGED response
       \/ \E code \in StatusCodes :
          \E body \in IF code = HTTP_OK THEN Responses \cup {NoResponse} ELSE {NoResponse} :
            LET r == HttpAnswer(code, body)
            IN  IF r.raises
                THEN Catch(r.cls, r.msg) /\ UNCHANGED response
                ELSE /\ response' = r.val
                     /\ pc' = "cursor"
                     /\ UNCHANGED <<error, iter_error>>
    /\ UNCHANGED <<globals, timestamp, old_error, homeworks, message,
                   propagating, sent, prev_error, prev_sent, prev_empty>>

\* line 173 as it would be if the cursor were advanced only once the
\* response had passed check_response
AdvanceCursor_after_validation ==
    /\ pc = "cursor"
    /\ LET r == GetCurrentDate(response)
           v == check_response(response)
       IN  IF r.raises
           THEN Catch(r.cls, r.msg) /\ UNCHANGED timestamp
           ELSE IF v.raises
           THEN Catch(v.cls, v.msg) /\ UNCHANGED timestamp
           ELSE /\ timestamp' = r.val
                /\ pc' = "check"
                /\ UNCHANGED <<error, iter_error>>
    /\ UNCHANGED <<globals, old_error, response, homeworks, message,
                   propagating, sent, prev_error, prev_sent, prev_empty, api_calls, from_date, sleeps>>

\* main line 173: timestamp = response.get('current_date')
AdvanceCursor ==
    /\ pc = "cursor"
    /\ LET r == GetCurrentDate(response)
       IN  IF r.raises
           THEN Catch(r.cls, r.msg) /\ UNCHANGED timestamp
           ELSE /\ timestamp' = r.val
                /\ pc' = "check"
                /\ UNCHANGED <<error, iter_error>>
    /\ UNCHANGED <<globals, old_error, response, homeworks, message,
                   propagating, sent, prev_error, prev_sent, prev_empty, api_calls, from_date, sleeps>>

\* main line 175: homeworks = check_response(response)
CheckResponse ==
    /\ pc = "check"
    /\ LET r == check_response(response)
       IN  IF r.raises
           THEN Catch(r.cls, r.msg) /\ UNCHANGED homeworks
           ELSE /\ homeworks' = r.val
                /\ pc' = "parse"
                /\ UNCHANGED <<error, iter_error>>
    /\ UNCHANGED <<globals, timestamp, old_error, response, message,
                   propagating, sent, prev_error, prev_sent, prev_empty, api_calls, from_date, sleeps>>

\* main lines 176-177: if homeworks: message = parse_status(homeworks[0])
ParseStatus ==
    /\ pc = "parse"
    /\ IF homeworks # <<>>
       THEN LET r == parse_status(homeworks[1])
            IN  IF r.raises
                THEN Catch(r.cls, r.msg) /\ UNCHANGED message
                ELSE /\ message' = r.val
                     /\ pc' = "send"
                     /\ UNCHANGED <<error, iter_error>>
       ELSE /\ pc' = "finally"
            /\ UNCHANGED <<message, error, iter_error>>
    /\ UNCHANGED <<globals, timestamp, old_error, response, homeworks,
                   propagating, sent, prev_error, prev_sent, prev_empty, api_calls, from_date, sleeps>>

\* send_message as it would be if its raise stood after the except block
\* instead of inside it
SendStatus_always_raises ==
    /\ pc = "send"
    /\ \E delivered \in BOOLEAN :
         /\ sent' = Append(sent, [kind |-> "status", text |-> message,
                                  delivered |-> delivered])
         /\ Catch("RequestExceptionError", NotSentMessage(message))
    /\ UNCHANGED <<globals, timestamp, old_error, response, homeworks, message,
                   propagating, prev_error, prev_sent, prev_empty, api_calls, from_date, sleeps>>

\* main line 178: send_message(bot, message); bot.send_message delivers or
\* raises TelegramError, which send_message turns into RequestExceptionError
SendStatus ==
    /\ pc = "send"
    /\ \E delivered \in BOOLEAN :
         /\ sent' = Append(sent, [kind |-> "status", text |-> message,
                                  delivered |-> delivered])
         /\ IF delivered
            THEN pc' = "finally" /\ UNCHANGED <<error, iter_error>>
            ELSE Catch("RequestExceptionError", NotSentMessage(message))
    /\ UNCHANGED <<globals, timestamp, old_error, response, homeworks, message,
                   propagating, prev_error, prev_sent, prev_empty, api_calls, from_date, sleeps>>

\* the except clause as it would be if old_error were assigned before the
\* failure notification is sent
HandleError_marks_first ==
    /\ pc = "except"
    /\ pc' = "finally"
    /\ error' = NoExc
    /\ IF NotEqual(error, old_error)
       THEN /\ message' = FailureMessage(error)
            /\ \E delivered \in BOOLEAN :
                 /\ sent' = Append(sent, [kind |-> "failure", text |-> message',
                                          delivered |-> delivered])
                 /\ IF delivered
                    THEN /\ old_error' = error
                         /\ UNCHANGED propagating
                    ELSE /\ propagating' =
                              Exc("RequestExceptionError", NotSentMessage(message'),
                                  FreshId({error.id, old_error.id}))
                         /\ old_error' = error
       ELSE UNCHANGED <<message, sent, old_error, propagating>>
    /\ UNCHANGED <<globals, timestamp, response, homeworks, iter_error,
                   prev_error, prev_sent, prev_empty, api_calls, from_date, sleeps>>

\* main lines 180-185: the except clause.  An exception send_message raises
\* here is not caught: it unwinds out of main once the finally clause ran.
HandleError ==
    /\ pc = "except"
    /\ pc' = "finally"
    /\ error' = NoExc
    /\ IF NotEqual(error, old_error)
       THEN /\ message' = FailureMessage(error)
            /\ \E delivered \in BOOLEAN :
                 /\ sent' = Append(sent, [kind |-> "failure", text |-> message',
                                          delivered |-> delivered])
                 /\ IF delivered
                    THEN /\ old_error' = error
                         /\ UNCHANGED propagating
                    ELSE /\ propagating' =
                              Exc("RequestExceptionError", NotSentMessage(message'),
                                  FreshId({error.id, old_error.id}))
                         /\ UNCHANGED old_error
       ELSE UNCHANGED <<message, sent, old_error, propagating>>
    /\ UNCHANGED <<globals, timestamp, response, homeworks, iter_error,
                   prev_error, prev_sent, prev_empty, api_calls, from_date, sleeps>>

\* the loop edge as it would be if time.sleep ended the try block instead of
\* standing in a finally clause: no sleep after an exception
Sleep_not_in_finally ==
    /\ pc = "finally"
    /\ sleeps' = IF iter_error = NoExc THEN sleeps + 1 ELSE sleeps
    /\ IF propagating # NoExc
       THEN /\ pc' = "crashed"
            /\ UNCHANGED <<response, homeworks, message, sent, iter_error,
                           prev_error, prev_sent, prev_empty>>
       ELSE /\ pc' = "get"
            /\ response' = NoResponse
            /\ homeworks' = <<>>
            /\ message' = <<>>
            /\ sent' = <<>>
            /\ prev_sent' = sent
            /\ prev_empty' = (iter_error = NoExc /\ homeworks = <<>>)
            /\ prev_error' = iter_error
            /\ iter_error' = NoExc
    /\ UNCHANGED <<globals, timestamp, old_error, error, propagating, api_calls, from_date>>

\* main line 187 and the loop edge: time.sleep(RETRY_PERIOD), then either the
\* pending exception leaves main or the next iteration starts
Sleep ==
    /\ pc = "finally"
    /\ sleeps' = sleeps + 1
    /\ IF propagating # NoExc
       THEN /\ pc' = "crashed"
            /\ UNCHANGED <<response, homeworks, message, sent, iter_error,
                           prev_error, prev_sent, prev_empty>>
       ELSE /\ pc' = "get"
            /\ response' = NoResponse
            /\ homeworks' = <<>>
            /\ message' = <<>>
            /\ sent' = <<>>
            /\ prev_sent' = sent
            /\ prev_empty' = (iter_error = NoExc /\ homeworks = <<>>)
            /\ prev_error' = iter_error
            /\ iter_error' = NoExc
    /\ UNCHANGED <<globals, timestamp, old_error, error, propagating, api_calls, from_date>>

Next ==
    \/ Startup
    \/ GetApiAnswer
    \/ AdvanceCursor
    \/ CheckResponse
    \/ ParseStatus
    \/ SendStatus
    \/ HandleError
    \/ Sleep

Spec == Init /\ [][Next]_vars

\* ----------------------------------------------------------------- claims
\* the body of the current iteration is over: the finally clause is next
IterationOver == pc = "finally"
Failures == {i \in 1..Len(sent) : sent[i].kind = "failure"}
Contains(text, fragment) == \E i \in 1..Len(text) : text[i] = fragment
HasBothKeys(r) ==
    r.t = "dict" /\ "current_date" \in DOMAIN r.d /\ "homeworks" \in DOMAIN r.d
\* a dict that lacks homeworks, lacks current_date, or whose homeworks is no list
Malformed(r) ==
    /\ r.t = "dict"
    /\ \/ ~HasBothKeys(r)
       \/ r.d.homeworks.t # "list"
WellFormed(r) ==
    /\ HasBothKeys(r)
    /\ r.d.homeworks.t = "list"
    /\ r.d.current_date.t = "int"
IsSubmission(h) == "homework_name" \in DOMAIN h /\ "status" \in DOMAIN h
Recognized(h) ==
    IsSubmission(h) /\ h.status.t = "str" /\ h.status.s \in DOMAIN HOMEWORK_VERDICTS
\* parse_status has just returned (pc = "send") or raised (pc = "except")
ParseStatusActed ==
    pc \in {"send", "except"} /\ homeworks # <<>> /\ sent = <<>>

\* C1: a failed delivery, of a status notification or of a failure
\* notification, never leaves the poll loop: the iteration sleeps and the
\* next iteration starts.
C1_DeliveryFailureContained ==
    [][(IterationOver /\ \E i \in 1..Len(sent) : ~sent[i].delivered)
          => pc' = "get"]_vars

\* C2: dedup law: when this iteration and the previous one raised errors with
\* the same string representation no failure notification is sent in this
\* one; when the representations differ, one is sent.
C2_DedupLaw ==
    (IterationOver /\ iter_error # NoExc /\ prev_error # NoExc) =>
        IF Str(iter_error) = Str(prev_error)
        THEN Failures = {}
        ELSE Cardinality(Failures) = 1

\* C3: startup gate: with three non-empty secrets main does not terminate at
\* startup; with a secret missing or empty the process never calls the API
\* and never enters the loop.
C3_StartupGate ==
    LET valid == \A n \in DOMAIN globals : globals[n] \notin {None, ""}
    IN  /\ valid => pc # "terminated"
        /\ ~valid => (~api_calls /\ pc \in {"STARTING", "terminated"})

\* C4: an iteration whose response lacks homeworks or current_date, or whose
\* homeworks is not a list, raises the TypeError of check_response, sleeps
\* and is followed by the next iteration.
C4_MalformedResponseSurvived ==
    [][(IterationOver /\ Malformed(response))
          => (iter_error.cls = "TypeError" /\ pc' = "get")]_vars

\* C5: check_response accepts a response only when homeworks is a list and
\* current_date is an integer.
C5_AcceptsOnlyIntegerDate ==
    (pc = "parse") =>
        /\ HasBothKeys(response)
        /\ response.d.homeworks.t = "list"
        /\ response.d.current_date.t = "int"

\* C6 as stated: for a submission with both keys parse_status returns the
\* message of the verdict table entry for approved, reviewing and rejected,
\* and raises the unrecognized-status error for every other status value.
C6_EveryOtherStatusUnrecognized ==
    (ParseStatusActed /\ IsSubmission(homeworks[1])) =>
        LET h == homeworks[1]
        IN  IF Recognized(h)
            THEN /\ pc = "send"
                 /\ message[2] = h.homework_name
                 /\ message[4] = HOMEWORK_VERDICTS[h.status.s]
            ELSE /\ pc = "except"
                 /\ error.cls = "RequestExceptionError"

\* C6 amended: for a submission with both keys parse_status returns the
\* message of the verdict table entry for approved, reviewing and rejected;
\* for every other status string it raises the unrecognized-status error, and
\* for an unhashable status (a JSON array or object) it raises TypeError; it
\* returns a message in neither case.
C6_VerdictOrError ==
    (ParseStatusActed /\ IsSubmission(homeworks[1])) =>
        LET h == homeworks[1]
        IN  IF Recognized(h)
            THEN /\ pc = "send"
                 /\ message[2] = h.homework_name
                 /\ message[4] = HOMEWORK_VERDICTS[h.status.s]
            ELSE /\ pc = "except"
                 /\ error.cls = IF h.status.t = "str"
                                THEN "RequestExceptionError" ELSE "TypeError"
                 /\ message = <<>>

C6_Witness ==
    /\ ParseStatusActed
    /\ homeworks[1] = [homework_name |-> "proj1", status |-> StatusStr("unknown")]
    /\ pc = "except"
    /\ error.cls = "RequestExceptionError"
    /\ Contains(error.msg, "unknown")

\* C7: an iteration whose response has both keys and an empty homeworks list
\* raises nothing, attempts no delivery and leaves the cursor at the
\* response's current_date; when the previous iteration got an empty list
\* too, it attempted no delivery either.
C7_EmptyHomeworksSilent ==
    (IterationOver /\ HasBothKeys(response) /\ response.d.homeworks = PyList(<<>>)) =>
        /\ iter_error = NoExc
        /\ sent = <<>>
        /\ timestamp = response.d.current_date
        /\ prev_empty => prev_sent = <<>>

C7_Witness ==
    /\ IterationOver
    /\ WellFormed(response)
    /\ response.d.homeworks = PyList(<<>>)
    /\ timestamp = PyInt(MaxDate)
    /\ sent = <<>>
    /\ prev_empty
    /\ prev_sent = <<>>

\* C8: an iteration whose well-formed response has a non-empty homeworks list
\* with a recognized first submission makes exactly one delivery attempt,
\* with the formatted status of element 0, and leaves the cursor at the
\* response's current_date.
C8_OneStatusNotification ==
    (/\ IterationOver
     /\ WellFormed(response)
     /\ response.d.homeworks.l # <<>>
     /\ Recognized(response.d.homeworks.l[1])) =>
        LET h == response.d.homeworks.l[1]
        IN  /\ Len(sent) = 1
            /\ sent[1].kind = "status"
            /\ sent[1].text[2] = h.homework_name
            /\ sent[1].text[4] = HOMEWORK_VERDICTS[h.status.s]
            /\ timestamp = response.d.current_date

\* C9: an iteration whose API call was answered with a non-200 status sends
\* exactly one failure notification, whose text names the endpoint and the
\* status code, and no exception is left to leave the loop.
C9_Non200Reported ==
    (IterationOver /\ iter_error.cls = "HTTPError") =>
        /\ Len(sent) = 1
        /\ sent[1].kind = "failure"
        /\ Contains(sent[1].text, ENDPOINT)
        /\ Contains(sent[1].text, iter_error.msg[2])
        /\ propagating = NoExc

\* C10: the process stops only at STARTING: once the loop is entered every
\* iteration is followed by another one.
C10_NoTerminalStateInLoop ==
    [][pc' \in {"terminated", "crashed"} => pc = "STARTING"]_vars

\* C11: the poll cursor is an integer in every state of the loop, and every
\* API request carries an integer from_date.
C11_CursorIsInteger ==
    /\ pc \notin {"STARTING", "terminated"} => timestamp.t = "int"
    /\ api_calls => from_date.t = "int"

\* C12: between two API calls there is exactly one sleep, whether the
\* iteration between them succeeded or raised an error: when the next
\* requests.get is due, time.sleep has run once since the latest one.
C12_OneSleepBetweenCalls ==
    /\ sleeps <= 1
    /\ (pc = "get" /\ api_calls) => sleeps = 1

C12_Witness ==
    /\ pc = "get"
    /\ api_calls
    /\ sleeps = 1
    /\ prev_error # NoExc
    /\ Len(prev_sent) = 1
    /\ prev_sent[1].kind = "failure"

\* response.get('current_date') of a dict response
CurrentDateOf(r) ==
    IF "current_date" \in DOMAIN r.d THEN r.d.current_date ELSE PyNone

\* C13 as stated: an iteration whose API call failed leaves the cursor as it
\* was when the request was made; an iteration whose API call returned a
\* response ends with the cursor replaced by that response's current_date,
\* whatever failed afterwards.
C13_CursorAdvancedOnEverySuccess ==
    IterationOver =>
        /\ response = NoResponse => timestamp = from_date
        /\ response # NoResponse =>
              (response.t = "dict" /\ timestamp = CurrentDateOf(response))

\* C13 amended: an iteration whose API call failed leaves the cursor
\* unchanged; one whose API call returned a JSON object ends with the cursor
\* replaced by response.get('current_date'), also when validation,
\* formatting or delivery failed afterwards; one whose API call returned a
\* JSON value that is not an object leaves the cursor unchanged.
C13_CursorFrame ==
    IterationOver =>
        /\ response = NoResponse => timestamp = from_date
        /\ response.t = "dict" => timestamp = CurrentDateOf(response)
        /\ response = NotDict => (timestamp = from_date /\ iter_error.cls = "AttributeError")

C13_Witness ==
    /\ IterationOver
    /\ response.t = "dict"
    /\ iter_error.cls = "TypeError"
    /\ from_date = PyInt(StartTime)
    /\ timestamp = PyInt(MaxDate)

\* the key whose absence parse_status reports: homework_name is read first
AbsentKey(h) ==
    IF "homework_name" \notin DOMAIN h THEN "'homework_name'" ELSE "'status'"

\* C14: for a submission that lacks homework_name or status parse_status
\* raises the KeyError that names the absent key, whatever its status is;
\* the iteration then attempts one failure notification carrying that text
\* and no status notification.
C14_MissingFieldReported ==
    /\ (ParseStatusActed /\ ~IsSubmission(homeworks[1])) =>
          /\ pc = "except"
          /\ error.cls = "KeyError"
          /\ Contains(error.msg, AbsentKey(homeworks[1]))
    /\ (IterationOver /\ homeworks # <<>> /\ ~IsSubmission(homeworks[1])) =>
          /\ iter_error.cls = "KeyError"
          /\ Len(sent) = 1
          /\ sent[1].kind = "failure"
          /\ sent[1].text = FailureMessage(iter_error)
          /\ Contains(sent[1].text, AbsentKey(homeworks[1]))

C14_Witness ==
    /\ IterationOver
    /\ homeworks # <<>>
    /\ homeworks[1] = [status |-> StatusStr("unknown")]
    /\ Len(sent) = 1
    /\ sent[1].kind = "failure"
    /\ Contains(sent[1].text, "'homework_name'")

\* C15: an iteration that raises nothing leaves the marker as it is, and an
\* error whose string representation equals the marker's, raised after an
\* iteration without error, sends no failure notification.
C15_MarkerKeptAndDedupAcrossSuccess ==
    [][/\ (pc \notin {"STARTING", "except"}) => old_error' = old_error
       /\ (pc = "except" /\ prev_error = NoExc /\ Str(error) = Str(old_error))
             => sent' = sent]_vars

\* C16: inside the loop the marker changes only in the except clause, to the
\* caught error, and only in a step that delivers the failure notification
\* for that error; a failed delivery leaves the marker as it was.
C16_MarkerOnlyAfterDelivery ==
    [][(pc # "STARTING" /\ old_error' # old_error) =>
          /\ pc = "except"
          /\ old_error' = error
          /\ sent' = Append(sent, [kind |-> "failure",
                                   text |-> FailureMessage(error),
                                   delivered |-> TRUE])]_vars

C16_Witness ==
    /\ IterationOver
    /\ iter_error.cls = "HTTPError"
    /\ Len(sent) = 1
    /\ sent[1].kind = "failure"
    /\ ~sent[1].delivered
    /\ old_error.cls = "ConnectionError"

\* C17: an iteration makes at most two delivery attempts, a status
\* notification and then a failure notification, the latter only when the
\* iteration caught an error; at most one of them is delivered, and a
\* delivered status notification is followed by no failure notification.
C17_AtMostOneDelivered ==
    /\ Len(sent) <= 2
    /\ Cardinality({i \in 1..Len(sent) : sent[i].delivered}) <= 1
    /\ Cardinality({i \in 1..Len(sent) : sent[i].kind = "status"}) <= 1
    /\ Cardinality(Failures) <= 1
    /\ Failures # {} => iter_error # NoExc
    /\ \A i \in 1..Len(sent) :
          (sent[i].kind = "status" /\ sent[i].delivered) => Len(sent) = i
    /\ Len(sent) = 2 => (sent[1].kind = "status" /\ sent[2].kind = "failure")

C17_Witness ==
    /\ IterationOver
    /\ Len(sent) = 2
    /\ sent[1].kind = "status"
    /\ ~sent[1].delivered
    /\ sent[2].kind = "failure"
    /\ sent[2].delivered
====
